---- MODULE Spec2Model ----
(***************************************************************************)
(* Model of the classification engine of transaction_classifier.py:        *)
(* fingerprinting, the layered resolver classify_transaction, the batch    *)
(* classifier classify_all_transactions and the user-rule store with its   *)
(* persistence (load at construction, save on add_user_classification).    *)
(*                                                                         *)
(* Text is a sequence of characters; each character is a one-token string. *)
(* Chinese characters are written by their pinyin syllable:                *)
(*   支出 = <<"zhi","chu">>      收入 = <<"shou","ru">>                      *)
(*   非收支 = <<"fei","shou","zhi">>   其他 = <<"qi","ta">>                  *)
(*   未分类 = <<"wei","fen","lei">>                                          *)
(*   未达到分类要求 = <<"wei","da","dao","fen","lei","yao","qiu">>           *)
(***************************************************************************)
EXTENDS Integers, Sequences, FiniteSets, TLC

VARIABLES
    phase,                \* "new" | "ready" | "failed": position of the constructor
    config_file,          \* content of config.json on disk
    rules_file,           \* content of user_rules.json on disk
    fs_writable,          \* whether open(user_rules_file, 'w') succeeds
    config,               \* self.config
    classification_rules, \* self.classification_rules
    user_classifications, \* self.user_classifications (insertion-ordered dict)
    df,                   \* the table handed to classify_all_transactions
    last                  \* the last call made on the classifier and what it returned

vars == <<phase, config_file, rules_file, fs_writable, config,
          classification_rules, user_classifications, df, last>>

-----------------------------------------------------------------------------
(* Python values *)

\* dict.get(key, default) on an optional entry
Some(v) == [has |-> TRUE, v |-> v]
Missing == [has |-> FALSE]
Get(o, d) == IF o.has THEN o.v ELSE d

\* JSON / cell values
JNull == [k |-> "null"]
JStr(s) == [k |-> "str", s |-> s]
JNum(n) == [k |-> "num", n |-> n]
JBool(b) == [k |-> "bool", b |-> b]
JList(l) == [k |-> "list", l |-> l]
\* a JSON object read as a user-rule entry
JObj(re, cat) == [k |-> "obj", desc_regex |-> re, category |-> cat]
\* a cell holding a timestamp whose hour-of-day is h
JTime(h) == [k |-> "time", hour |-> h]
\* float('nan'), what pandas puts in an empty cell
JNaN == [k |-> "nan"]

\* Python truthiness
Truthy(v) ==
    CASE v.k = "null" -> FALSE
      [] v.k = "str" -> v.s # <<>>
      [] v.k = "num" -> v.n # 0
      [] v.k = "bool" -> v.b
      [] v.k = "list" -> v.l # <<>>
      [] v.k = "obj" -> v.desc_regex.has \/ v.category.has
      [] OTHER -> TRUE

\* str(value or '') for a text cell, which holds None, NaN or a string
StrOrEmpty(v) ==
    IF v.k = "nan" THEN <<"n", "a", "n">>
    ELSE IF Truthy(v) /\ v.k = "str" THEN v.s
    ELSE <<>>

-----------------------------------------------------------------------------
(* str methods *)

LowerChar(c) ==
    CASE c = "A" -> "a"
      [] c = "B" -> "b"
      [] c = "N" -> "n"
      [] OTHER -> c

Lower(s) == [i \in 1..Len(s) |-> LowerChar(s[i])]

\* needle in hay
Contains(hay, needle) ==
    \E i \in 0..(Len(hay) - Len(needle)) :
        SubSeq(hay, i + 1, i + Len(needle)) = needle

RECURSIVE LStrip(_)
LStrip(s) == IF s # <<>> /\ Head(s) = " " THEN LStrip(Tail(s)) ELSE s

RECURSIVE RStrip(_)
RStrip(s) ==
    IF s # <<>> /\ s[Len(s)] = " " THEN RStrip(SubSeq(s, 1, Len(s) - 1)) ELSE s

Strip(s) == RStrip(LStrip(s))

DigitChars == <<"0", "1", "2", "3", "4", "5", "6", "7", "8", "9">>

\* f"{n}" for a non-negative int
RECURSIVE Digits(_)
Digits(n) ==
    IF n < 10 THEN <<DigitChars[n + 1]>>
    ELSE Digits(n \div 10) \o <<DigitChars[(n % 10) + 1]>>

IsDigit(c) == \E i \in 1..10 : DigitChars[i] = c

DigitValue(c) == (CHOOSE i \in 1..10 : DigitChars[i] = c) - 1

RECURSIVE ParseDigits(_)
ParseDigits(s) ==
    IF Len(s) = 1 THEN DigitValue(s[1])
    ELSE 10 * ParseDigits(SubSeq(s, 1, Len(s) - 1)) + DigitValue(s[Len(s)])

\* float(s) succeeds on a digit string (optionally signed); anything else raises
FloatParses(s) ==
    LET body == IF s # <<>> /\ s[1] = "-" THEN Tail(s) ELSE s
    IN body # <<>> /\ \A i \in 1..Len(body) : IsDigit(body[i])

FloatOfStr(s) ==
    IF s[1] = "-" THEN 0 - ParseDigits(Tail(s)) ELSE ParseDigits(s)

Abs(n) == IF n < 0 THEN 0 - n ELSE n

\* str.replace('*', '.*')
RECURSIVE ReplaceStar(_)
ReplaceStar(s) ==
    IF s = <<>> THEN <<>>
    ELSE (IF Head(s) = "*" THEN <<".", "*">> ELSE <<Head(s)>>)
            \o ReplaceStar(Tail(s))

-----------------------------------------------------------------------------
(* re: the fragment of regular expressions over literals, '.', '*' and '+' *)

\* An atom matches one character (any, when dot) once, or repeatedly (star).
Atom(c, dot, star) == [c |-> c, dot |-> dot, star |-> star]

\* re.compile: the atoms of a pattern, or an error ("nothing to repeat",
\* "multiple repeat") when a quantifier has nothing to apply to.
RECURSIVE CompileFrom(_, _, _, _)
CompileFrom(p, i, acc, canRepeat) ==
    IF i > Len(p) THEN [ok |-> TRUE, atoms |-> acc]
    ELSE IF p[i] \in {"*", "+"} THEN
        IF ~canRepeat THEN [ok |-> FALSE, atoms |-> <<>>]
        ELSE LET a == acc[Len(acc)]
                 front == SubSeq(acc, 1, Len(acc) - 1)
             IN IF p[i] = "*"
                THEN CompileFrom(p, i + 1,
                                 Append(front, Atom(a.c, a.dot, TRUE)), FALSE)
                ELSE CompileFrom(p, i + 1,
                                 Append(acc, Atom(a.c, a.dot, TRUE)), FALSE)
    ELSE CompileFrom(p, i + 1, Append(acc, Atom(p[i], p[i] = ".", FALSE)), TRUE)

Compile(p) == CompileFrom(p, 1, <<>>, FALSE)

AtomTakes(a, ch) == a.dot \/ a.c = ch

\* atoms[k..] match s[j..] up to the end of s
RECURSIVE MatchAt(_, _, _, _)
MatchAt(atoms, k, s, j) ==
    IF k > Len(atoms) THEN j = Len(s) + 1
    ELSE IF atoms[k].star THEN
        \/ MatchAt(atoms, k + 1, s, j)
        \/ /\ j <= Len(s)
           /\ AtomTakes(atoms[k], s[j])
           /\ MatchAt(atoms, k, s, j + 1)
    ELSE /\ j <= Len(s)
         /\ AtomTakes(atoms[k], s[j])
         /\ MatchAt(atoms, k + 1, s, j + 1)

AnyRun == Atom(".", TRUE, TRUE)

\* re.match(f"^{p}$", s): "error" when p does not compile, else the verdict
ReFullMatch(p, s) ==
    LET c == Compile(p)
    IN IF ~c.ok THEN "error"
       ELSE IF MatchAt(c.atoms, 1, s, 1) THEN "match" ELSE "nomatch"

\* re.search(p, s)
ReSearch(p, s) ==
    LET c == Compile(p)
    IN IF ~c.ok THEN "error"
       ELSE IF MatchAt(<<AnyRun>> \o c.atoms \o <<AnyRun>>, 1, s, 1)
            THEN "match" ELSE "nomatch"

-----------------------------------------------------------------------------
(* Literals of transaction_classifier.py *)

fail_status_keywords ==
    << <<"dui", "fang", "yi", "tui", "huan">>,
       <<"yi", "quan", "e", "tui", "kuan">>,
       <<"huan", "kuan", "shi", "bai">>,
       <<"shi", "bai">>,
       <<"tui", "kuan">>,
       <<"tui", "huan">> >>

UnclassifiedByStatus == <<"wei", "da", "dao", "fen", "lei", "yao", "qiu">>
NonOperational == <<"fei", "shou", "zhi">>
Unclassified == <<"wei", "fen", "lei">>
Other == <<"qi", "ta">>
Expense == <<"zhi", "chu">>
Income == <<"shou", "ru">>

DefaultIntervals == <<0, 10, 20, 50, 100, 300, 500>>
DefaultMaxLabel == <<"5", "0", "0", "+">>

\* generic_parties of classify_transaction
generic_parties_lookup ==
    { <<"yu", "e", "bao">>,
      <<"tao", "bao", "(fw", "zhong", "guo", ")fw", "ruan", "jian", "you",
        "xian", "gong", "si">>,
      <<"zhi2", "ma", "xin", "yong">>,
      <<"jie", "bei">>,
      <<"duo", "duo", "you", "li">>,
      <<"qing", "yun", "zu">> }

\* generic_parties of _fingerprint
generic_parties_teach ==
    { <<"pin", "duo", "duo", "ping", "tai", "shang", "hu">>,
      <<"dou", "yin", "dian", "shang", "shang", "jia">>,
      <<"tao", "bao", "(fw", "zhong", "guo", ")fw", "ruan", "jian", "you",
        "xian", "gong", "si">>,
      <<"zhi2", "ma", "xin", "yong">>,
      <<"duo", "duo", "you", "li">>,
      <<"jie", "bei">>,
      <<"yu", "e", "bao">> }

-----------------------------------------------------------------------------
(* The insertion-ordered dict self.user_classifications: a sequence of      *)
(* [key, value] items with pairwise distinct keys.                          *)

HasKey(d, key) == \E i \in 1..Len(d) : d[i].key = key

Lookup(d, key) == d[CHOOSE i \in 1..Len(d) : d[i].key = key].value

\* variant: the table is replaced by the one new entry
Store_Reset(d, key, value) == << [key |-> key, value |-> value] >>

\* d[key] = value
Store(d, key, value) ==
    IF HasKey(d, key)
    THEN [i \in 1..Len(d) |->
            IF d[i].key = key THEN [key |-> key, value |-> value] ELSE d[i]]
    ELSE Append(d, [key |-> key, value |-> value])

\* dict == dict: the same items, in any order
DictEq(d, e) == {d[i] : i \in 1..Len(d)} = {e[i] : i \in 1..Len(e)}

-----------------------------------------------------------------------------
(* Fingerprint parts *)

\* self.config.get('系统设置', {}).get('金额模糊化', {})
FuzzyIntervals(cfg) == Get(cfg.intervals, DefaultIntervals)
FuzzyMaxLabel(cfg) == Get(cfg.max_label, DefaultMaxLabel)
FuzzyIgnoreAmount(cfg) == Get(cfg.ignore_amount, FALSE)
\* enable_fuzzy of line 76: read from the configuration, used nowhere
FuzzyEnable(cfg) == Get(cfg.enable, TRUE)

\* a float: nan, or the number v
Float(v) == [nan |-> FALSE, v |-> v]
NaN == [nan |-> TRUE, v |-> 0]

\* variant: intervals closed at the top, (low, high]
IntervalLabel_UpperInclusive(intervals, max_label, amount_abs) ==
    LET fits == {i \in 1..(Len(intervals) - 1) :
                    /\ ~amount_abs.nan
                    /\ intervals[i] < amount_abs.v
                    /\ amount_abs.v <= intervals[i + 1]}
    IN IF fits = {} THEN max_label
       ELSE LET i == CHOOSE i \in fits : \A j \in fits : i <= j
            IN Digits(intervals[i]) \o <<"-">> \o Digits(intervals[i + 1])

\* the interval loop: the first [low, high) holding amount_abs, else max_label
\* (every comparison with nan is false)
IntervalLabel(intervals, max_label, amount_abs) ==
    LET fits == {i \in 1..(Len(intervals) - 1) :
                    /\ ~amount_abs.nan
                    /\ intervals[i] <= amount_abs.v
                    /\ amount_abs.v < intervals[i + 1]}
    IN IF fits = {} THEN max_label
       ELSE LET i == CHOOSE i \in fits : \A j \in fits : i <= j
            IN Digits(intervals[i]) \o <<"-">> \o Digits(intervals[i + 1])

FloatAbs(a) == [nan |-> a.nan, v |-> Abs(a.v)]

\* float(row.get('金额', 0) or 0): ok is FALSE when float() raises
AmountOrZero(cell) ==
    IF cell.k = "nan" THEN [ok |-> TRUE, f |-> NaN]
    ELSE IF ~Truthy(cell) THEN [ok |-> TRUE, f |-> Float(0)]
    ELSE IF cell.k = "num" THEN [ok |-> TRUE, f |-> Float(cell.n)]
    ELSE IF cell.k = "str" /\ FloatParses(cell.s)
         THEN [ok |-> TRUE, f |-> Float(FloatOfStr(cell.s))]
    ELSE [ok |-> FALSE, f |-> Float(0)]

\* try: float(amount) except: 0.0
AmountTry(cell) ==
    IF cell.k = "nan" THEN NaN
    ELSE IF cell.k = "num" THEN Float(cell.n)
    ELSE IF cell.k = "str" /\ FloatParses(cell.s) THEN Float(FloatOfStr(cell.s))
    ELSE Float(0)

\* f"{hour}" with hour = pd.to_datetime(time_str).hour, '' when parsing raises;
\* the empty string and 'nan' parse to NaT, whose hour is nan
HourText(cell) ==
    IF cell.k = "time" THEN Digits(cell.hour)
    ELSE IF StrOrEmpty(cell) \in {<<>>, <<"n", "a", "n">>} THEN <<"n", "a", "n">>
    ELSE <<>>

\* amount_part of classify_transaction (lines 80-93): amount_label "0" is set
\* for a zero amount, but amount_part is assigned only in the else branch
AmountPart(cfg, amount) ==
    LET amount_abs == FloatAbs(amount)
        is_zero == ~amount_abs.nan /\ amount_abs.v = 0
        amount_label ==
            IF is_zero THEN <<"0">>
            ELSE IntervalLabel(FuzzyIntervals(cfg), FuzzyMaxLabel(cfg), amount_abs)
    IN IF FuzzyIgnoreAmount(cfg) THEN <<>>
       ELSE IF is_zero THEN <<>>
       ELSE amount_label

Key(bucket, party, suffix) == bucket \o <<"_">> \o party \o <<"_">> \o suffix

\* possible_keys of classify_transaction, in priority order
PossibleKeys(cfg, row) ==
    LET amount_part == AmountPart(cfg, AmountOrZero(row.amount).f)
        party == Strip(StrOrEmpty(row.party))
        hour == HourText(row.time)
    IN << Key(amount_part, party, hour), Key(amount_part, party, <<"*">>) >>
       \o (IF party \in generic_parties_lookup
           THEN << Key(amount_part, party, <<"*">>) >> ELSE <<>>)

\* the key the regex scan of the stored keys is tested against
TestKey(cfg, row) == PossibleKeys(cfg, row)[1]

\* _fingerprint (the second definition, which is the one in effect)
FingerprintLabel(cfg, row) ==
    IntervalLabel(FuzzyIntervals(cfg), FuzzyMaxLabel(cfg),
                  FloatAbs(AmountTry(row.amount)))

_fingerprint(cfg, row) ==
    LET party == Strip(StrOrEmpty(row.party))
        amount_label == FingerprintLabel(cfg, row)
    IN IF party \in generic_parties_teach
       THEN Key(amount_label, party, <<"*">>)
       ELSE Key(amount_label, party, HourText(row.time))

-----------------------------------------------------------------------------
(* classify_transaction *)

Ret(category, source) == [category |-> category, source |-> source]

\* variant: the status must equal a keyword instead of containing one
StatusFailed_ExactMatch(row) ==
    LET status == Strip(StrOrEmpty(row.status))
    IN \E i \in 1..Len(fail_status_keywords) : status = fail_status_keywords[i]

\* lines 60-63: any(kw in status for kw in fail_status_keywords)
StatusFailed(row) ==
    LET status == Strip(StrOrEmpty(row.status))
    IN \E i \in 1..Len(fail_status_keywords) :
          Contains(status, fail_status_keywords[i])

\* lines 112-118: the value under the first possible key that is stored
ExactLookup(table, keys) ==
    LET present == {i \in 1..Len(keys) : HasKey(table, keys[i])}
    IN IF present = {} THEN [found |-> FALSE]
       ELSE LET i == CHOOSE i \in present : \A j \in present : i <= j
            IN [found |-> TRUE, key |-> keys[i],
                rules |-> Lookup(table, keys[i])]

\* lines 122-129: stored keys read as patterns, in stored order, against the
\* test key; re.match raises on a stored key that is no valid pattern
RECURSIVE PatternLookup(_, _, _)
PatternLookup(table, i, test_key) ==
    IF i > Len(table) THEN [found |-> FALSE, raised |-> FALSE]
    ELSE LET m == ReFullMatch(ReplaceStar(table[i].key), test_key)
         IN IF m = "error" THEN [found |-> FALSE, raised |-> TRUE]
            ELSE IF m = "match"
                 THEN [found |-> TRUE, raised |-> FALSE, key |-> table[i].key,
                       rules |-> table[i].value]
            ELSE PatternLookup(table, i + 1, test_key)

\* lines 111-129: matched_rules and matched_key
MatchedRules(table, keys) ==
    LET exact == ExactLookup(table, keys)
    IN IF exact.found /\ Truthy(exact.rules)
       THEN [found |-> TRUE, raised |-> FALSE, key |-> exact.key,
             rules |-> exact.rules]
       ELSE PatternLookup(table, 1, keys[1])

\* what `for rule in matched_rules` iterates over
Iterable(v) == v.k \in {"list", "str", "obj"}

Elements(v) ==
    CASE v.k = "list" -> v.l
      [] v.k = "str" -> [i \in 1..Len(v.s) |-> JStr(<<v.s[i]>>)]
      [] OTHER -> <<>>

\* lines 134-140 for one rule: TRUE when its desc_regex is non-empty and found
\* in desc; an exception (rule is no dict, pattern is no string or does not
\* compile) is caught and the rule is passed over
RuleMatches(rule, desc) ==
    /\ rule.k = "obj"
    /\ LET pattern == Get(rule.desc_regex, JStr(<<>>))
       IN /\ Truthy(pattern)
          /\ pattern.k = "str"
          /\ ReSearch(pattern.s, desc) = "match"

\* variant: the last matching rule wins instead of the first
ApplyRules_LastMatch(matched_rules, desc) ==
    IF ~Iterable(matched_rules) THEN [kind |-> "exc"]
    ELSE LET rules == Elements(matched_rules)
             hits == {i \in 1..Len(rules) : RuleMatches(rules[i], desc)}
         IN IF hits # {}
            THEN LET i == CHOOSE i \in hits : \A j \in hits : i >= j
                 IN [kind |-> "hit", category |-> Get(rules[i].category, JNull)]
            ELSE IF matched_rules.k = "list" /\ matched_rules.l[1].k = "obj"
                 THEN [kind |-> "hit",
                       category |-> Get(matched_rules.l[1].category, JNull)]
            ELSE [kind |-> "exc"]

\* an exception is raised while a rule is tested
RuleRaises(rule, desc) ==
    \/ rule.k # "obj"
    \/ LET pattern == Get(rule.desc_regex, JStr(<<>>))
       IN /\ Truthy(pattern)
          /\ \/ pattern.k # "str"
             \/ ReSearch(pattern.s, desc) = "error"

\* variant: an exception raised by one rule ends the scan
ApplyRules_AbortOnError(matched_rules, desc) ==
    IF ~Iterable(matched_rules) THEN [kind |-> "exc"]
    ELSE LET rules == Elements(matched_rules)
             hits == {i \in 1..Len(rules) : RuleMatches(rules[i], desc)}
             raising == {i \in 1..Len(rules) : RuleRaises(rules[i], desc)}
         IN IF \E i \in raising : \A j \in hits : i < j
            THEN [kind |-> "exc"]
            ELSE IF hits # {}
            THEN LET i == CHOOSE i \in hits : \A j \in hits : i <= j
                 IN [kind |-> "hit", category |-> Get(rules[i].category, JNull)]
            ELSE IF matched_rules.k = "list" /\ matched_rules.l[1].k = "obj"
                 THEN [kind |-> "hit",
                       category |-> Get(matched_rules.l[1].category, JNull)]
            ELSE [kind |-> "exc"]

\* lines 133-143 on a truthy matched_rules
ApplyRules(matched_rules, desc) ==
    IF ~Iterable(matched_rules) THEN [kind |-> "exc"]
    ELSE LET rules == Elements(matched_rules)
             hits == {i \in 1..Len(rules) : RuleMatches(rules[i], desc)}
         IN IF hits # {}
            THEN LET i == CHOOSE i \in hits : \A j \in hits : i <= j
                 IN [kind |-> "hit", category |-> Get(rules[i].category, JNull)]
            ELSE IF matched_rules.k = "list" /\ matched_rules.l[1].k = "obj"
                 THEN [kind |-> "hit",
                       category |-> Get(matched_rules.l[1].category, JNull)]
            ELSE [kind |-> "exc"]

\* lines 64-148, the user-rule section: "hit" with the category returned,
\* "miss" (line 146) or "exc" (an exception reached line 147)
UserRuleSection(self, row) ==
    IF ~AmountOrZero(row.amount).ok THEN [kind |-> "exc"]
    ELSE LET desc == Strip(StrOrEmpty(row.desc))
             m == MatchedRules(self.user_classifications,
                               PossibleKeys(self.config, row))
         IN IF m.raised THEN [kind |-> "exc"]
            ELSE IF m.found /\ Truthy(m.rules) THEN ApplyRules(m.rules, desc)
            ELSE [kind |-> "miss"]

\* self._text
_text(v) == Lower(StrOrEmpty(v))

\* line 158
Haystack(row) ==
    _text(row.ttype) \o <<" ">> \o _text(row.desc) \o <<" ">> \o _text(row.party)

\* variant: the last matching category wins instead of the first
FirstCategory_LastMatch(cats, haystack) ==
    LET hits == {i \in 1..Len(cats) :
                    \E j \in 1..Len(cats[i].kws) :
                        Contains(haystack, Lower(cats[i].kws[j]))}
    IN IF hits = {} THEN Missing
       ELSE Some(cats[CHOOSE i \in hits : \A j \in hits : i >= j].cate)

\* the first category, in configured order, one of whose keywords is in haystack
FirstCategory(cats, haystack) ==
    LET hits == {i \in 1..Len(cats) :
                    \E j \in 1..Len(cats[i].kws) :
                        Contains(haystack, Lower(cats[i].kws[j]))}
    IN IF hits = {} THEN Missing
       ELSE Some(cats[CHOOSE i \in hits : \A j \in hits : i <= j].cate)

\* variant: the direction is looked at before the non-operational keywords
StaticRules_DirectionFirst(self, row) ==
    LET haystack == Haystack(row)
        income_expense == _text(row.income_expense)
        nonop == Get(self.classification_rules.nonop, <<>>)
        expense == Get(self.classification_rules.expense, <<>>)
        income == Get(self.classification_rules.income, <<>>)
    IN IF Truthy(row.cross) THEN Ret(JStr(NonOperational), "config")
       ELSE IF Contains(income_expense, Expense)
            THEN LET c == FirstCategory(expense, haystack)
                 IN Ret(JStr(Expense \o <<"-">> \o Get(c, Other)), "config")
       ELSE IF Contains(income_expense, Income)
            THEN LET c == FirstCategory(income, haystack)
                 IN Ret(JStr(Income \o <<"-">> \o Get(c, Other)), "config")
       ELSE IF \E i \in 1..Len(nonop) : Contains(haystack, Lower(nonop[i]))
            THEN Ret(JStr(NonOperational), "config")
       ELSE Ret(JStr(Unclassified), "config")

\* lines 150-176
StaticRules(self, row) ==
    LET haystack == Haystack(row)
        income_expense == _text(row.income_expense)
        nonop == Get(self.classification_rules.nonop, <<>>)
        expense == Get(self.classification_rules.expense, <<>>)
        income == Get(self.classification_rules.income, <<>>)
    IN IF Truthy(row.cross) THEN Ret(JStr(NonOperational), "config")
       ELSE IF \E i \in 1..Len(nonop) : Contains(haystack, Lower(nonop[i]))
            THEN Ret(JStr(NonOperational), "config")
       ELSE IF Contains(income_expense, Expense)
            THEN LET c == FirstCategory(expense, haystack)
                 IN Ret(JStr(Expense \o <<"-">> \o Get(c, Other)), "config")
       ELSE IF Contains(income_expense, Income)
            THEN LET c == FirstCategory(income, haystack)
                 IN Ret(JStr(Income \o <<"-">> \o Get(c, Other)), "config")
       ELSE Ret(JStr(Unclassified), "config")

\* variant: no except clause, the exception leaves classify_transaction
OnUserRuleException_Propagate(self, row) == Ret(JNull, "raised")

\* the except clause of line 147: the exception is printed and execution
\* continues with the static rules
OnUserRuleException(self, row) == StaticRules(self, row)

\* variant: the status is looked at only when nothing else decided
classify_transaction_StatusLast(self, row) ==
    LET u == UserRuleSection(self, row)
        decided == IF u.kind = "hit" THEN Ret(u.category, "user_rules")
                   ELSE IF u.kind = "exc" THEN OnUserRuleException(self, row)
                   ELSE StaticRules(self, row)
    IN IF decided.category = JStr(Unclassified) /\ StatusFailed(row)
       THEN Ret(JStr(UnclassifiedByStatus), "status_filter")
       ELSE decided

\* lines 58-176
classify_transaction(self, row) ==
    IF StatusFailed(row) THEN Ret(JStr(UnclassifiedByStatus), "status_filter")
    ELSE LET u == UserRuleSection(self, row)
         IN IF u.kind = "hit" THEN Ret(u.category, "user_rules")
            ELSE IF u.kind = "exc" THEN OnUserRuleException(self, row)
            ELSE StaticRules(self, row)

-----------------------------------------------------------------------------
(* Construction and the user-rule store *)

EmptyRules == [nonop |-> Missing, expense |-> Missing, income |-> Missing]

\* a config.json document: the keys of 系统设置.金额模糊化 and 分类规则
Config(intervals, max_label, ignore_amount, enable, rules) ==
    [intervals |-> intervals, max_label |-> max_label,
     ignore_amount |-> ignore_amount, enable |-> enable, rules |-> rules]

EmptyConfig == Config(Missing, Missing, Missing, Missing, Missing)

\* files: absent, not JSON, a JSON document that is no object, or an object
FileAbsent == [k |-> "absent"]
FileCorrupt == [k |-> "corrupt"]
FileNonDict == [k |-> "nondict"]
FileDict(d) == [k |-> "dict", d |-> d]

\* lines 26-35
_load_user_rules(file) == IF file.k = "dict" THEN file.d ELSE <<>>

\* lines 37-53: the content of the rules file after save_user_rules
save_user_rules(file, table, writable) ==
    IF file.k = "corrupt" THEN file
    ELSE IF file.k = "dict" /\ DictEq(file.d, table) THEN file
    ELSE IF writable THEN FileDict(table)
    ELSE file

\* lines 20-21: open() and json.load() raise on a missing or malformed file
ConfigLoads(file) == file.k = "dict"

\* enhanced_bill_parser.py, TransactionClassifier._load_rules: the rules of the
\* file when it parses and has 分类规则.支出, else the default rules with one
\* 其他 bucket per direction
DefaultRules ==
    Config(Missing, Missing, Missing, Missing,
           Some([nonop |-> Some(<<>>),
                 expense |-> Some(<< [cate |-> Other, kws |-> <<>>] >>),
                 income |-> Some(<< [cate |-> Other, kws |-> <<>>] >>)]))

_load_rules(file) ==
    IF file.k = "dict" /\ file.d.rules.has /\ file.d.rules.v.expense.has
    THEN file.d
    ELSE DefaultRules

Self ==
    [config |-> config, classification_rules |-> classification_rules,
     user_classifications |-> user_classifications]

NoCall == [op |-> "none"]

EmptyDf == [columns |-> {}, rows |-> <<>>]

\* TransactionClassifier(): lines 16-24
Construct ==
    /\ phase = "new"
    /\ IF ConfigLoads(config_file)
       THEN /\ phase' = "ready"
            /\ config' = config_file.d
            /\ classification_rules' = Get(config_file.d.rules, EmptyRules)
            /\ user_classifications' = _load_user_rules(rules_file)
            /\ last' = [op |-> "construct", raised |-> FALSE]
       ELSE /\ phase' = "failed"
            /\ last' = [op |-> "construct", raised |-> TRUE]
            /\ UNCHANGED <<config, classification_rules, user_classifications>>
    /\ UNCHANGED <<config_file, rules_file, fs_writable, df>>

\* enhanced_bill_parser.TransactionClassifier(): lines 7-10
ConstructParserClassifier ==
    /\ phase = "new"
    /\ last.op # "construct_parser"
    /\ last' = [op |-> "construct_parser", raised |-> FALSE,
                rules |-> _load_rules(config_file)]
    /\ UNCHANGED <<phase, config_file, rules_file, fs_writable, config,
                   classification_rules, user_classifications, df>>

\* classify_transaction(row)
Classify(row) ==
    /\ phase = "ready"
    /\ last' = [op |-> "classify", row |-> row,
                keys |-> IF ~StatusFailed(row) /\ AmountOrZero(row.amount).ok
                         THEN PossibleKeys(config, row) ELSE <<>>,
                result |-> classify_transaction(Self, row)]
    /\ UNCHANGED <<phase, config_file, rules_file, fs_writable, config,
                   classification_rules, user_classifications, df>>

\* _fingerprint(row)
Fingerprint(row) ==
    /\ phase = "ready"
    /\ last' = [op |-> "fingerprint", row |-> row,
                result |-> _fingerprint(config, row)]
    /\ UNCHANGED <<phase, config_file, rules_file, fs_writable, config,
                   classification_rules, user_classifications, df>>

\* lines 38-51: an exception is raised inside the try block of save_user_rules
\* (json.load of the old file, os.makedirs or open(..., 'w') fails)
SaveRaisesInside(file, table, writable) ==
    \/ file.k = "corrupt"
    \/ /\ ~(file.k = "dict" /\ DictEq(file.d, table))
       /\ ~writable

\* variant: no comparison with the old content, every save writes
SaveWrites_Always(file, table, writable) ==
    /\ file.k # "corrupt"
    /\ writable

\* lines 40-49: save_user_rules reaches json.dump and the write succeeds
SaveWrites(file, table, writable) ==
    /\ file.k # "corrupt"
    /\ ~(file.k = "dict" /\ DictEq(file.d, table))
    /\ writable

\* variant: no except clause, the exception leaves save_user_rules
OnSaveException_Propagate == "raised"

\* lines 52-53: the exception is printed
OnSaveException == "printed"

\* add_user_classification(row, classification, persist): lines 256-259
AddUserClassification(row, classification, persist) ==
    /\ phase = "ready"
    /\ LET key == _fingerprint(config, row)
           table == Store(user_classifications, key, JStr(classification))
           file == IF persist
                   THEN save_user_rules(rules_file, table, fs_writable)
                   ELSE rules_file
           failed == persist /\ SaveRaisesInside(rules_file, table, fs_writable)
       IN /\ user_classifications' = table
          /\ rules_file' = file
          /\ last' = [op |-> "teach", row |-> row, category |-> classification,
                      persist |-> persist, key |-> key,
                      wrote |-> persist /\ SaveWrites(rules_file, table,
                                                      fs_writable),
                      save_failed |-> failed,
                      raised |-> failed /\ OnSaveException = "raised"]
    /\ UNCHANGED <<phase, config_file, fs_writable, config,
                   classification_rules, df>>

-----------------------------------------------------------------------------
(* classify_all_transactions *)

FenLei == "fen_lei"                          \* 分类
FenLeiLaiYuan == "fen_lei_lai_yuan"          \* 分类来源
TiaoZhengHouFenLei == "tiao_zheng_hou_fen_lei"        \* 调整后分类
TiaoZhengHouZiFenLei == "tiao_zheng_hou_zi_fen_lei"   \* 调整后子分类

Cells(cat, src, adj, sub) ==
    [fen_lei |-> cat, fen_lei_lai_yuan |-> src,
     tiao_zheng_hou_fen_lei |-> adj, tiao_zheng_hou_zi_fen_lei |-> sub]

NoCells == Cells(JNull, JNull, JNull, JNull)

\* x.split('-')[-1]
RECURSIVE LastSegment(_)
LastSegment(s) ==
    IF \E i \in 1..Len(s) : s[i] = "-"
    THEN LastSegment(Tail(s))
    ELSE s

\* lines 250-252
SubCategory(x) ==
    IF x.k = "str" THEN JStr(LastSegment(x.s))
    ELSE JStr(<<"N", "o", "n", "e">>)

\* lines 240-241
AlreadyClassified(table) == {FenLei, FenLeiLaiYuan} \subseteq table.columns

\* lines 244-252 for one row
ClassifiedRow(self, r) ==
    LET res == classify_transaction(self, r.tx)
    IN [r EXCEPT !.cells = Cells(res.category, JStr(<<res.source>>),
                                 res.category, SubCategory(res.category))]

\* variant: no short-circuit, every call classifies again
classify_all_transactions_Recompute(self, table) ==
    [df |-> [table EXCEPT
                !.columns = @ \cup {FenLei, FenLeiLaiYuan,
                                    TiaoZhengHouFenLei, TiaoZhengHouZiFenLei},
                !.rows = [i \in 1..Len(@) |-> ClassifiedRow(self, @[i])]],
     resolved |-> Len(table.rows)]

\* lines 238-254: the table returned, and on how many rows the resolver ran
classify_all_transactions(self, table) ==
    IF AlreadyClassified(table) THEN [df |-> table, resolved |-> 0]
    ELSE [df |-> [table EXCEPT
                    !.columns = @ \cup {FenLei, FenLeiLaiYuan,
                                        TiaoZhengHouFenLei, TiaoZhengHouZiFenLei},
                    !.rows = [i \in 1..Len(@) |-> ClassifiedRow(self, @[i])]],
          resolved |-> Len(table.rows)]

\* a new table arrives from the parser
LoadTable(table) ==
    /\ phase = "ready"
    /\ df' = table
    /\ last' = [op |-> "load"]
    /\ UNCHANGED <<phase, config_file, rules_file, fs_writable, config,
                   classification_rules, user_classifications>>

\* df = classify_all_transactions(df)
ClassifyAll ==
    /\ phase = "ready"
    /\ LET run == classify_all_transactions(Self, df)
       IN /\ df' = run.df
          /\ last' = [op |-> "classify_all", input |-> df,
                      resolved |-> run.resolved]
    /\ UNCHANGED <<phase, config_file, rules_file, fs_writable, config,
                   classification_rules, user_classifications>>

-----------------------------------------------------------------------------
(* get_classification_statistics *)

JinE == "jin_e"                              \* 金额
PingTai == "ping_tai"                        \* 平台

\* A table is [columns, rows]: columns holds the columns that come on top of
\* the transaction fields (the classification columns and 平台), a row is
\* [tx, cells] with the platform cell in the field platform when the table
\* has one.  A table that lacks transaction columns lists them in dropped.
Dropped(table) == IF "dropped" \in DOMAIN table THEN table.dropped ELSE {}

Platform(r) == IF "platform" \in DOMAIN r THEN r.platform ELSE JNull

\* pd.to_numeric(x, errors='coerce') followed by fillna(0), for one cell
ToNumeric(cell) ==
    IF cell.k = "num" THEN cell.n
    ELSE IF cell.k = "str" /\ FloatParses(cell.s) THEN FloatOfStr(cell.s)
    ELSE 0

\* str.startswith
StartsWith(s, prefix) ==
    /\ Len(s) >= Len(prefix)
    /\ SubSeq(s, 1, Len(prefix)) = prefix

\* Series.sum() of the coerced amounts of the rows with index in idx
RECURSIVE SumAmounts(_, _)
SumAmounts(rows, idx) ==
    IF idx = {} THEN 0
    ELSE LET i == CHOOSE i \in idx : TRUE
         IN ToNumeric(rows[i].tx.amount) + SumAmounts(rows, idx \ {i})

\* the .str accessor raises AttributeError on a column that holds numbers and
\* no text
NotText(rows, field) ==
    /\ \E i \in 1..Len(rows) : rows[i].cells[field].k = "num"
    /\ \A i \in 1..Len(rows) : rows[i].cells[field].k # "str"

EmptyMap == [c \in {} |-> 0]

\* lines 311-315: the statistics returned when aggregation raised
FallbackStats ==
    [zong_shou_ru |-> 0, zong_zhi_chu |-> 0, jing_shou_ru |-> 0,
     fen_lei_tong_ji |-> [shu_liang |-> EmptyMap, jin_e |-> EmptyMap],
     ping_tai_tong_ji |-> [sum |-> EmptyMap, count |-> EmptyMap]]

\* lines 286-302 on the rows, with the category read from field
ComputedStats(table, field) ==
    LET rows == table.rows
        all == 1..Len(rows)
        cat(i) == rows[i].cells[field]
        income == {i \in all : cat(i).k = "str" /\ StartsWith(cat(i).s, Income)}
        expense == {i \in all : cat(i).k = "str" /\ StartsWith(cat(i).s, Expense)}
        nonop == {i \in all : cat(i) = JStr(NonOperational)}
        cats == {cat(i) : i \in all}
        platforms == {Platform(rows[i]) : i \in all}
    IN [zong_shou_ru |-> SumAmounts(rows, income),
        zong_zhi_chu |-> SumAmounts(rows, expense),
        fei_shou_zhi_zong_e |-> SumAmounts(rows, nonop),
        jing_shou_ru |-> SumAmounts(rows, income) - SumAmounts(rows, expense),
        fen_lei_tong_ji |->
            [shu_liang |->
                [c \in cats |-> Cardinality({i \in all : cat(i) = c})],
             jin_e |->
                [c \in cats |-> SumAmounts(rows, {i \in all : cat(i) = c})]],
        ping_tai_tong_ji |->
            IF PingTai \in table.columns
            THEN [sum |-> [q \in platforms |->
                            SumAmounts(rows,
                                {i \in all : Platform(rows[i]) = q})],
                  count |-> [q \in platforms |->
                            Cardinality({i \in all : Platform(rows[i]) = q})]]
            ELSE [sum |-> EmptyMap, count |-> EmptyMap]]

\* line 274: df['分类'] = '未分类', an assignment to the caller's table
WithPlaceholder(table) ==
    [table EXCEPT
        !.columns = @ \cup {FenLei},
        !.rows = [i \in 1..Len(@) |->
                    [@[i] EXCEPT !.cells.fen_lei = JStr(Unclassified)]]]

\* `column in df.columns and not df[column].empty`
Filled(table, column) == column \in table.columns /\ table.rows # <<>>

\* variant: the category is always read from 分类
CategoryField_Unadjusted(table) == FenLei

\* lines 268-275: category_field
CategoryField(table) ==
    IF Filled(table, TiaoZhengHouFenLei) THEN TiaoZhengHouFenLei ELSE FenLei

\* variant: the .str accessor also raises on a column without rows
AggregationRaises_OnEmpty(table, category_field) ==
    \/ JinE \in Dropped(table)
    \/ NotText(table.rows, category_field)
    \/ table.rows = <<>>

\* lines 278-302 raise: df_copy['金额'] on a table without that column, .str
\* on a category column that is no text
AggregationRaises(table, category_field) ==
    \/ JinE \in Dropped(table)
    \/ NotText(table.rows, category_field)

\* lines 261-315: the statistics returned, and the caller's table after the
\* call
get_classification_statistics(table) ==
    LET category_field == CategoryField(table)
        input == IF Filled(table, TiaoZhengHouFenLei) \/ Filled(table, FenLei)
                 THEN table
                 ELSE WithPlaceholder(table)
    IN [df |-> input,
        stats |-> IF AggregationRaises(input, category_field)
                  THEN FallbackStats
                  ELSE ComputedStats(input, category_field)]

\* stats = get_classification_statistics(df)
Statistics ==
    /\ phase = "ready"
    /\ LET run == get_classification_statistics(df)
       IN /\ df' = run.df
          /\ last' = [op |-> "statistics", input |-> df, stats |-> run.stats]
    /\ UNCHANGED <<phase, config_file, rules_file, fs_writable, config,
                   classification_rules, user_classifications>>

-----------------------------------------------------------------------------
(* Inputs *)

MaxAmt == 5       \* amounts range over -MaxAmt..MaxAmt and a few larger values
MaxRules == 2     \* add_user_classification adds keys up to this table size
MaxRows == 2      \* rows of a table handed to classify_all_transactions

Row(status, amount, party, desc, time, ttype, income_expense, cross) ==
    [status |-> status, amount |-> amount, party |-> party, desc |-> desc,
     time |-> time, ttype |-> ttype, income_expense |-> income_expense,
     cross |-> cross]

U1 == <<"u", "-", "t">>
U2 == <<"v">>
C1 == <<"c", "1">>
C2 == <<"c", "2">>
C3 == <<"c", "3">>

Cat(cate, kws) == [cate |-> cate, kws |-> kws]

RulesFull ==
    [nonop |-> Some(<< <<"N">> >>),
     expense |-> Some(<< Cat(C1, << <<"z">>, <<"A">> >>), Cat(C2, << <<"b">> >>) >>),
     income |-> Some(<< Cat(C3, << <<"b">> >>) >>)]

RulesReordered ==
    [nonop |-> Missing,
     expense |-> Some(<< Cat(C2, << <<"b">> >>), Cat(C1, << <<"a">> >>) >>),
     income |-> Some(<< Cat(C3, << <<>> >>) >>)]

SmallIntervals == <<0, 2, 4>>
OffsetIntervals == <<2, 4>>
SmallMaxLabel == <<"4", "+">>

ConfigDefault == Config(Missing, Missing, Missing, Missing, Some(RulesFull))
ConfigNoRules == EmptyConfig
ConfigReordered == Config(Missing, Missing, Missing, Missing, Some(RulesReordered))
ConfigSmall ==
    Config(Some(SmallIntervals), Some(SmallMaxLabel), Some(FALSE), Some(TRUE),
           Some(RulesFull))
ConfigOffset ==
    Config(Some(OffsetIntervals), Missing, Missing, Some(FALSE), Some(RulesFull))
ConfigIgnoreAmount ==
    Config(Some(SmallIntervals), Some(SmallMaxLabel), Some(TRUE), Missing,
           Some(RulesFull))

P == <<"p">>
JieBei == <<"jie", "bei">>
DouYin == <<"dou", "yin", "dian", "shang", "shang", "jia">>

Entry(re, cat) == JObj(Some(JStr(re)), Some(JStr(cat)))
Item(key, value) == [key |-> key, value |-> value]

Bucket0To10 == <<"0", "-", "1", "0">>
KExact == Key(Bucket0To10, P, <<"5">>)
KWild == Key(Bucket0To10, P, <<"*">>)

ResolverTables ==
    { <<>>,
      << Item(KExact, JList(<<Entry(<<"a">>, U1), Entry(<<"b">>, U2),
                              Entry(<<"A">>, U1)>>)) >>,
      << Item(KExact, JList(<<Entry(<<>>, U1), Entry(<<"b">>, U2)>>)) >>,
      << Item(KExact, JList(<<>>)),
         Item(KWild, JList(<<Entry(<<"a">>, U1)>>)) >>,
      << Item(KWild, JList(<<Entry(<<"*", "*">>, U1), Entry(<<"a">>, U2)>>)) >>,
      << Item(KExact, JStr(U1)) >>,
      << Item(KExact, JList(<<JStr(<<"x">>), Entry(<<"a">>, U2)>>)) >>,
      << Item(KExact, JList(<<Entry(<<"z">>, U1)>>)),
         Item(KWild, JList(<<Entry(<<"a">>, U2)>>)) >>,
      << Item(Key(<<"+">>, P, <<"5">>), JList(<<Entry(<<"a">>, U1)>>)) >>,
      << Item(KExact, JList(<<JObj(Missing, Missing)>>)) >>,
      << Item(Key(<<>>, P, <<"5">>), JList(<<Entry(<<"A", ".", "*">>, U1)>>)) >>,
      << Item(Key(Bucket0To10, <<".">>, <<"n", "a", "n">>),
              JList(<<Entry(<<"c", "+">>, U2)>>)) >> }

ResolverConfigs == {ConfigDefault, ConfigNoRules, ConfigReordered}

ResolverRows ==
    { Row(st, am, pa, de, ti, tt, ie, cr) :
        st \in {JNull, JStr(<<"x", "shi", "bai">>), JStr(<<"cheng", "gong">>)},
        am \in {JNull, JNum(1), JStr(<<"x">>)},
        pa \in {JStr(P), JNull},
        de \in {JNull, JStr(<<"a">>), JStr(<<"A", "b">>), JStr(<<"c">>)},
        ti \in {JTime(5), JNull, JStr(<<"x">>)},
        tt \in {JNull, JStr(<<"n">>)},
        ie \in {JNull, JStr(Expense), JStr(Income), JStr(<<"/">>)},
        cr \in {JNull, JBool(TRUE)} }

KeyConfigs == {ConfigDefault, ConfigSmall, ConfigOffset, ConfigIgnoreAmount}

KeyAmounts ==
    {JNum(n) : n \in (0 - MaxAmt)..MaxAmt}
        \cup {JNum(10), JNum(499), JNum(500), JNull, JNaN, JStr(<<"x">>),
              JStr(<<"-", "3">>)}

KeyRows ==
    { Row(JNull, am, pa, JStr(<<"a">>), ti, JNull, JStr(Expense), JNull) :
        am \in KeyAmounts,
        pa \in {JStr(P), JStr(<<" ", "p", " ">>), JStr(JieBei), JStr(DouYin)},
        ti \in {JTime(5), JTime(13), JNull, JStr(<<"x">>)} }

-----------------------------------------------------------------------------
(* Specifications *)

\* a constructed classifier, as Construct leaves it
Constructed(cfgs, tables) ==
    /\ phase = "ready"
    /\ config \in cfgs
    /\ config_file = FileDict(config)
    /\ classification_rules = Get(config.rules, EmptyRules)
    /\ user_classifications \in tables
    /\ rules_file = IF user_classifications = <<>> THEN FileAbsent
                    ELSE FileDict(user_classifications)
    /\ fs_writable = TRUE
    /\ df = EmptyDf
    /\ last = NoCall

\* the resolver as a function: one call on a constructed classifier
InitResolver == Constructed(ResolverConfigs, ResolverTables)

ResolveOnce == \E row \in ResolverRows : last = NoCall /\ Classify(row)

NextResolver == ResolveOnce

SpecResolver == InitResolver /\ [][NextResolver]_vars

\* the fingerprints: the lookup keys and the teach-time key of one row
InitKeys == Constructed(KeyConfigs, {<<>>})

LookupOnce == \E row \in KeyRows : last = NoCall /\ Classify(row)

TeachKeyOnce == \E row \in KeyRows : last = NoCall /\ Fingerprint(row)

NextKeys == LookupOnce \/ TeachKeyOnce

SpecKeys == InitKeys /\ [][NextKeys]_vars

\* the classifier with its files: construction, teaching, classification
ConfigFiles ==
    {FileAbsent, FileCorrupt, FileNonDict, FileDict(ConfigDefault),
     FileDict(ConfigNoRules)}

\* the row of test_user_rules.py: no status, no time, amount 12.34
TestSample ==
    Row(JNull, JNum(12), JStr(P), JStr(<<"a">>), JNull, JStr(<<"g">>),
        JStr(Expense), JNull)

GenericSample ==
    Row(JStr(<<"cheng", "gong">>), JNum(3), JStr(JieBei), JStr(<<"c">>),
        JTime(5), JNull, JStr(Income), JNull)

ZeroSample ==
    Row(JNull, JNum(0), JStr(P), JStr(<<"a">>), JTime(5), JNull, JStr(Expense),
        JNull)

StoreRows == {TestSample, GenericSample, ZeroSample}

Categories == {U1, U2}

KTestSample == Key(<<"1", "0", "-", "2", "0">>, P, <<"n", "a", "n">>)

StoredRules == << Item(KTestSample, JList(<<Entry(<<"a">>, U1)>>)) >>

RuleFiles ==
    {FileAbsent, FileCorrupt, FileNonDict, FileDict(<<>>), FileDict(StoredRules)}

Init ==
    /\ phase = "new"
    /\ config_file \in ConfigFiles
    /\ rules_file \in RuleFiles
    /\ fs_writable \in BOOLEAN
    /\ config = EmptyConfig
    /\ classification_rules = EmptyRules
    /\ user_classifications = <<>>
    /\ df = EmptyDf
    /\ last = NoCall

Teach ==
    \E row \in StoreRows, c \in Categories, persist \in BOOLEAN :
        /\ \/ HasKey(user_classifications, _fingerprint(config, row))
           \/ Len(user_classifications) < MaxRules
        /\ AddUserClassification(row, c, persist)

ClassifyStored == \E row \in StoreRows : Classify(row)

Next == Construct \/ ConstructParserClassifier \/ Teach \/ ClassifyStored

Spec == Init /\ [][Next]_vars

\* a session of the application: a table is parsed, classified and
\* aggregated, rows are classified and the user teaches categories
SampleTable ==
    [columns |-> {}, rows |-> << [tx |-> TestSample, cells |-> NoCells] >>]

InitSession == Constructed({ConfigDefault}, {<<>>, StoredRules})

LoadSample == df = EmptyDf /\ LoadTable(SampleTable)

ClassifySample == Classify(TestSample)

NextSession ==
    Teach \/ ClassifySample \/ LoadSample \/ ClassifyAll \/ Statistics

SpecSession == InitSession /\ [][NextSession]_vars

\* batch classification of tables, with teaching in between
FailedSample ==
    Row(JStr(<<"tui", "kuan">>), JNum(12), JStr(P), JStr(<<"a">>), JNull, JNull,
        JStr(Income), JNull)

BatchRows == {TestSample, FailedSample}

RawRow(tx) == [tx |-> tx, cells |-> NoCells]

RECURSIVE SeqsUpTo(_, _)
SeqsUpTo(S, n) ==
    IF n = 0 THEN {<<>>}
    ELSE LET shorter == SeqsUpTo(S, n - 1)
         IN shorter \cup {Append(q, x) : q \in shorter, x \in S}

RawTables ==
    {[columns |-> {}, rows |-> rows] :
        rows \in SeqsUpTo({RawRow(tx) : tx \in BatchRows}, MaxRows)}

\* a table that carries 分类 but no 分类来源
HalfClassified ==
    [columns |-> {FenLei},
     rows |-> << [tx |-> TestSample, cells |-> Cells(JStr(U2), JNull, JNull, JNull)] >>]

\* a table classified earlier and loaded again
LoadedClassified ==
    [columns |-> {FenLei, FenLeiLaiYuan},
     rows |-> << [tx |-> TestSample,
                  cells |-> Cells(JStr(U2), JStr(<<"config">>), JNull, JNull)] >>]

InputTables == RawTables \cup {HalfClassified, LoadedClassified}

InitBatch == Constructed({ConfigDefault}, {<<>>, StoredRules})

LoadAny == \E table \in InputTables : LoadTable(table)

TeachInMemory ==
    \E row \in BatchRows, c \in Categories :
        /\ \/ HasKey(user_classifications, _fingerprint(config, row))
           \/ Len(user_classifications) < MaxRules
        /\ AddUserClassification(row, c, FALSE)

NextBatch == LoadAny \/ ClassifyAll \/ TeachInMemory

SpecBatch == InitBatch /\ [][NextBatch]_vars

\* classification followed by aggregation
W == <<"w">>
Z == <<"z">>

\* transactions the resolver classifies 支出-c1, 收入-其他, 非收支 and
\* 未达到分类要求 (a failed expense, a failed income) under ConfigDefault
FailedKinds == {"failed", "failed_income"}

StatTx(kind, amount) ==
    Row(IF kind \in FailedKinds THEN JStr(<<"tui", "kuan">>) ELSE JNull,
        amount, JStr(P), JStr(<<"a">>), JNull, JNull,
        IF kind \in {"income", "failed_income"} THEN JStr(Income)
        ELSE JStr(Expense),
        IF kind = "nonop" THEN JBool(TRUE) ELSE JNull)

StatCategory(kind) ==
    CASE kind = "expense" -> JStr(Expense \o <<"-">> \o C1)
      [] kind = "income" -> JStr(Income \o <<"-">> \o Other)
      [] kind = "nonop" -> JStr(NonOperational)
      [] OTHER -> JStr(UnclassifiedByStatus)

StatSource(kind) ==
    IF kind \in FailedKinds THEN JStr(<<"status_filter">>)
    ELSE JStr(<<"config">>)

\* the adjusted category: as classified, or edited by the user afterwards;
\* failed rows come with one amount, edited rows with numeric amounts
Adjusted ==
    { [kind |-> "expense", adj |-> StatCategory("expense")],
      [kind |-> "expense", adj |-> JStr(Income \o <<"-">> \o C3)],
      [kind |-> "income", adj |-> StatCategory("income")],
      [kind |-> "income", adj |-> JNull],
      [kind |-> "nonop", adj |-> StatCategory("nonop")],
      [kind |-> "failed", adj |-> StatCategory("failed")],
      [kind |-> "failed_income", adj |-> StatCategory("failed_income")] }

AmountCells ==
    { [amount |-> JNum(3), platform |-> JStr(W)],
      [amount |-> JNum(-1), platform |-> JStr(Z)],
      [amount |-> JStr(<<"x">>), platform |-> JStr(W)] }

StatRows ==
    { [tx |-> StatTx(p[1].kind, p[2].amount),
       cells |-> Cells(StatCategory(p[1].kind), StatSource(p[1].kind),
                       p[1].adj, SubCategory(p[1].adj)),
       platform |-> p[2].platform] :
        p \in {q \in Adjusted \X AmountCells :
                /\ q[1].kind \in FailedKinds => q[2].amount = JNum(3)
                /\ q[1].adj # StatCategory(q[1].kind)
                        => q[2].amount.k = "num"} }

\* the row as a table with the given columns holds it
Project(columns, r) ==
    [tx |-> r.tx,
     cells |-> [f \in DOMAIN r.cells |->
                    IF f \in columns THEN r.cells[f] ELSE JNull],
     platform |-> IF PingTai \in columns THEN r.platform ELSE JNull]

ClassifiedColumns ==
    {FenLei, FenLeiLaiYuan, TiaoZhengHouFenLei, TiaoZhengHouZiFenLei}

StatColumns ==
    { ClassifiedColumns \cup {PingTai}, {FenLei, FenLeiLaiYuan}, {} }

\* a classified table whose category columns hold numbers
NumericCategories ==
    [columns |-> ClassifiedColumns,
     rows |-> << [tx |-> StatTx("expense", JNum(3)),
                  cells |-> Cells(JNum(7), JStr(<<"config">>), JNum(7),
                                  JStr(<<"7">>)),
                  platform |-> JNull] >>,
     dropped |-> {}]

StatTables ==
    { [columns |-> cols,
       rows |-> [i \in 1..Len(rows) |-> Project(cols, rows[i])],
       dropped |-> {}] :
        cols \in StatColumns, rows \in SeqsUpTo(StatRows, MaxRows) }
    \cup { [columns |-> cols,
            rows |-> [i \in 1..Len(rows) |-> Project(cols, rows[i])],
            dropped |-> {JinE}] :
        cols \in {ClassifiedColumns, {}},
        rows \in SeqsUpTo({r \in StatRows : r.tx.amount = JNum(3)
                                             /\ r.platform = JStr(W)}, 1) }
    \cup { NumericCategories }

InitStats == Constructed({ConfigDefault}, {<<>>})

LoadStatTable == \E table \in StatTables : last = NoCall /\ LoadTable(table)

NextStats == LoadStatTable \/ ClassifyAll \/ Statistics

SpecStats == InitStats /\ [][NextStats]_vars

-----------------------------------------------------------------------------
(* Properties of the resolver (SpecResolver) *)

Min(S) == CHOOSE i \in S : \A j \in S : i <= j

Classified == last.op = "classify"

\* C1: a transaction whose status text contains a failure keyword is classified
\* 未达到分类要求 with provenance status_filter, whatever its other fields, the
\* static rules and the user-rule table are.
C1_StatusOverride ==
    (/\ Classified
     /\ \E i \in 1..Len(fail_status_keywords) :
            Contains(StrOrEmpty(last.row.status), fail_status_keywords[i]))
        => last.result = Ret(JStr(UnclassifiedByStatus), "status_filter")

C1_Witness ==
    /\ Classified
    /\ last.row.status = JStr(<<"x", "shi", "bai">>)
    /\ last.row.cross = JBool(TRUE)
    /\ last.row.amount = JNum(1)
    /\ HasKey(user_classifications, TestKey(config, last.row))
    /\ last.result.source = "status_filter"

\* the list stored under the first lookup key, in priority order, that is in
\* the user-rule table
StoredUnderLookupKey ==
    LET present == {i \in 1..Len(last.keys) :
                        HasKey(user_classifications, last.keys[i])}
    IN IF present = {} THEN JNull
       ELSE Lookup(user_classifications, last.keys[Min(present)])

IsEntryList(v) ==
    /\ v.k = "list"
    /\ v.l # <<>>
    /\ \A j \in 1..Len(v.l) : v.l[j].k = "obj"

\* the entries of L whose description regex is non-empty and matches desc
MatchingEntries(L, desc) ==
    {j \in 1..Len(L) :
        /\ L[j].desc_regex.has
        /\ L[j].desc_regex.v.k = "str"
        /\ L[j].desc_regex.v.s # <<>>
        /\ ReSearch(L[j].desc_regex.v.s, desc) = "match"}

SearchText(row) ==
    Lower(StrOrEmpty(row.ttype)) \o <<" ">> \o Lower(StrOrEmpty(row.desc))
        \o <<" ">> \o Lower(StrOrEmpty(row.party))

\* the categories of cats with a keyword occurring in text
Matching(cats, text) ==
    {i \in 1..Len(cats) :
        \E j \in 1..Len(cats[i].kws) : Contains(text, Lower(cats[i].kws[j]))}

DirectionLabel(cats, text, direction) ==
    LET m == Matching(cats, text)
    IN direction \o <<"-">> \o (IF m = {} THEN Other ELSE cats[Min(m)].cate)

ReachesDirectionScan ==
    /\ Classified
    /\ last.result.source \notin {"status_filter", "user_rules"}
    /\ ~Truthy(last.row.cross)
    /\ LET nonop == Get(classification_rules.nonop, <<>>)
       IN \A i \in 1..Len(nonop) :
            ~Contains(SearchText(last.row), Lower(nonop[i]))

\* C7: a transaction that is not status-failed, has no user-rule hit, is not
\* flagged cross-platform and matches no non-operational keyword gets
\* 支出-{C} for the first expense category C, in configured order, with a
\* keyword in the search text (支出-其他 when none) if its direction is expense,
\* 收入-{C} / 收入-其他 likewise for income, 未分类 when the direction is
\* neither; the provenance is config.
C7_DirectionScan ==
    ReachesDirectionScan =>
        LET text == SearchText(last.row)
            direction == StrOrEmpty(last.row.income_expense)
            expected ==
                IF Contains(direction, Expense)
                THEN DirectionLabel(Get(classification_rules.expense, <<>>),
                                    text, Expense)
                ELSE IF Contains(direction, Income)
                THEN DirectionLabel(Get(classification_rules.income, <<>>),
                                    text, Income)
                ELSE Unclassified
        IN last.result = Ret(JStr(expected), "config")

C7_Witness ==
    /\ ReachesDirectionScan
    /\ config = ConfigDefault
    /\ Cardinality(Matching(classification_rules.expense.v,
                            SearchText(last.row))) = 2
    /\ last.result = Ret(JStr(Expense \o <<"-">> \o C1), "config")

\* C8: classify_transaction is total: for every row (missing fields,
\* unparsable amount or timestamp) and every user-rule table it returns one
\* (category, provenance) pair with provenance status_filter, user_rules or
\* config.
C8_Total ==
    Classified =>
        /\ last.result.source \in {"status_filter", "user_rules", "config"}
        /\ last.result.category.k \in {"str", "null"}

C8_Witness ==
    /\ Classified
    /\ last.row.amount = JStr(<<"x">>)
    /\ last.row.time = JNull
    /\ last.row.desc = JNull
    /\ user_classifications # <<>>
    /\ last.result.source = "config"

\* a non-empty list of {desc_regex, category} objects, both of them strings
WellFormedEntries(v) ==
    /\ IsEntryList(v)
    /\ \A j \in 1..Len(v.l) :
        /\ v.l[j].desc_regex.has /\ v.l[j].desc_regex.v.k = "str"
        /\ v.l[j].category.has /\ v.l[j].category.v.k = "str"

\* the lookup keys of the last call that are in the user-rule table with a
\* non-empty list of well-formed entries
HitKeys ==
    {i \in 1..Len(last.keys) :
        /\ HasKey(user_classifications, last.keys[i])
        /\ WellFormedEntries(Lookup(user_classifications, last.keys[i]))}

\* C16: user memory precedes every static check: a transaction that is not
\* status-failed and one of whose lookup keys is in the user-rule table with a
\* non-empty list of well-formed entries gets provenance user_rules, also when
\* its cross-platform flag is set or a non-operational or direction keyword
\* matches.
C16_UserMemoryFirst ==
    (Classified /\ HitKeys # {}) => last.result.source = "user_rules"

\* the entry list stored under the i-th lookup key of the last call
StoredUnder(i) == Lookup(user_classifications, last.keys[i])

HoldsEntries(i) ==
    /\ HasKey(user_classifications, last.keys[i])
    /\ WellFormedEntries(StoredUnder(i))

\* C17: when the exact key (bucket_counterparty_hour) is in the user-rule
\* table and none of its entries' regexes matches the description, the
\* wildcard key (bucket_counterparty_*) is consulted next with the same regex
\* scan: a match under the wildcard key determines the category, and the
\* first entry of the exact key is used only when the wildcard scan yields no
\* match either.
C17_WildcardAfterExact ==
    (/\ Classified
     /\ last.keys # <<>>
     /\ HoldsEntries(1)
     /\ HoldsEntries(2)
     /\ MatchingEntries(StoredUnder(1).l,
                        Strip(StrOrEmpty(last.row.desc))) = {})
        => LET wild == StoredUnder(2).l
               m == MatchingEntries(wild, Strip(StrOrEmpty(last.row.desc)))
               expected == IF m # {} THEN wild[Min(m)].category.v
                           ELSE StoredUnder(1).l[1].category.v
           IN last.result = Ret(expected, "user_rules")

\* the entries of L that carry no description regex
WithoutRegex(L) ==
    {j \in 1..Len(L) :
        \/ ~L[j].desc_regex.has
        \/ ~Truthy(L[j].desc_regex.v)}

\* C18: an entry that carries a description regex which does not match the
\* description of the transaction is never the source of the category
\* returned: a category with provenance user_rules comes from an entry whose
\* regex matches, or from one that carries no regex (the fuzzy fallback).
C18_FallbackNotExcluded ==
    (/\ Classified
     /\ last.keys # <<>>
     /\ IsEntryList(StoredUnderLookupKey)
     /\ last.result.source = "user_rules")
        => LET L == StoredUnderLookupKey.l
               desc == Strip(StrOrEmpty(last.row.desc))
           IN \E j \in MatchingEntries(L, desc) \cup WithoutRegex(L) :
                last.result.category = Get(L[j].category, JNull)

\* a configured non-operational keyword is a case-insensitive substring of
\* the search text
NonOperationalKeyword(row) ==
    LET nonop == Get(classification_rules.nonop, <<>>)
    IN \E i \in 1..Len(nonop) : Contains(SearchText(row), Lower(nonop[i]))

\* C20: a transaction that is not status-failed and has no user-rule hit is
\* classified (非收支, config) when its cross-platform flag is set or a
\* configured non-operational keyword is a case-insensitive substring of its
\* search text, whatever its direction is and whatever direction keywords
\* match as well.
C20_NonOperationalFirst ==
    (/\ Classified
     /\ last.result.source \notin {"status_filter", "user_rules"}
     /\ Truthy(last.row.cross) \/ NonOperationalKeyword(last.row))
        => last.result = Ret(JStr(NonOperational), "config")

\* an expense whose description matches an expense keyword and whose category
\* hint matches a non-operational keyword, the flag not set
C20_Witness ==
    /\ Classified
    /\ last.result.source = "config"
    /\ ~Truthy(last.row.cross)
    /\ NonOperationalKeyword(last.row)
    /\ last.row.income_expense = JStr(Expense)
    /\ Matching(Get(classification_rules.expense, <<>>),
                SearchText(last.row)) # {}
    /\ last.result.category = JStr(NonOperational)

\* the amount cell holds something float() rejects
UnparsableAmount(row) == row.amount.k = "str" /\ ~FloatParses(row.amount.s)

\* C21: a row whose amount is unparsable is classified exactly as the same row
\* with amount 0 would be: the user-rule lookup runs with the zero-amount
\* bucket and the remaining steps follow.
C21_UnparsableAsZero ==
    (Classified /\ UnparsableAmount(last.row)) =>
        last.result
            = classify_transaction(Self, [last.row EXCEPT !.amount = JNum(0)])

\* '{bucket}_{counterparty}_' of the transaction of the last call
OwnPrefix ==
    LET key == last.keys[1]
    IN SubSeq(key, 1, Len(key) - Len(HourText(last.row.time)))

\* the user-rule table without the keys of other buckets or counterparties
OwnKeysOnly ==
    [Self EXCEPT
        !.user_classifications =
            SelectSeq(@, LAMBDA item : StartsWith(item.key, OwnPrefix))]

\* C28: a stored key influences only transactions of its own bucket and
\* counterparty: when the result has provenance user_rules the key that
\* matched starts with the bucket token and counterparty of the transaction,
\* and the result is the one the resolver gives with every key of another
\* bucket or counterparty removed from the table, whatever characters those
\* keys hold.
C28_LiteralKeys ==
    (Classified /\ last.keys # <<>>)
        => /\ last.result.source = "user_rules"
                => StartsWith(MatchedRules(user_classifications, last.keys).key,
                              OwnPrefix)
           /\ last.result = classify_transaction(OwnKeysOnly, last.row)

\* the entries of L whose description regex does not compile
InvalidEntries(L) ==
    {j \in 1..Len(L) :
        /\ L[j].desc_regex.has
        /\ L[j].desc_regex.v.k = "str"
        /\ ReSearch(L[j].desc_regex.v.s, <<>>) = "error"}

\* C30: an entry whose description regex is invalid does not end the scan of
\* the matched list: it is passed over, the entries after it are tested in
\* order, the category of the first entry is returned when none matches, and
\* the provenance is user_rules in either case, never that of the static
\* rules.
C30_InvalidRegexSkipped ==
    (/\ Classified
     /\ last.keys # <<>>
     /\ IsEntryList(StoredUnderLookupKey)
     /\ InvalidEntries(StoredUnderLookupKey.l) # {})
        => LET L == StoredUnderLookupKey.l
               desc == Strip(StrOrEmpty(last.row.desc))
               later == {j \in MatchingEntries(L, desc) :
                            j \notin InvalidEntries(L)}
           IN /\ last.result.source = "user_rules"
              /\ last.result.category =
                    Get(L[IF later = {} THEN 1 ELSE Min(later)].category, JNull)

\* the first entry does not compile and the second one matches
C30_Witness ==
    /\ Classified
    /\ last.keys # <<>>
    /\ IsEntryList(StoredUnderLookupKey)
    /\ 1 \in InvalidEntries(StoredUnderLookupKey.l)
    /\ 2 \in MatchingEntries(StoredUnderLookupKey.l,
                             Strip(StrOrEmpty(last.row.desc)))
    /\ last.result = Ret(JStr(U2), "user_rules")
    /\ last.row.cross = JBool(TRUE)

\* the first entry does not compile and no entry matches
C30_Fallback ==
    /\ Classified
    /\ last.keys # <<>>
    /\ IsEntryList(StoredUnderLookupKey)
    /\ 1 \in InvalidEntries(StoredUnderLookupKey.l)
    /\ MatchingEntries(StoredUnderLookupKey.l,
                       Strip(StrOrEmpty(last.row.desc))) = {}
    /\ last.result = Ret(JStr(U1), "user_rules")

-----------------------------------------------------------------------------
(* Properties of the fingerprints (SpecKeys) *)

\* the bucket token of a key: what precedes its first '_'
RECURSIVE BucketToken(_)
BucketToken(key) ==
    IF key = <<>> \/ Head(key) = "_" THEN <<>>
    ELSE <<Head(key)>> \o BucketToken(Tail(key))

\* the bucket tokens of the keys the last call built
TokensBuilt ==
    IF last.op = "classify"
    THEN {BucketToken(last.keys[i]) : i \in 1..Len(last.keys)}
    ELSE {BucketToken(last.result)}

BuiltKeys ==
    \/ last.op = "classify" /\ last.keys # <<>>
    \/ last.op = "fingerprint"

\* C5: an amount of exactly 0 gets the bucket token "0" in every fingerprint:
\* in the lookup keys of classify_transaction and in the key of _fingerprint.
C5_ZeroBucket ==
    (/\ BuiltKeys
     /\ last.row.amount = JNum(0)
     /\ ~FuzzyIgnoreAmount(config))
        => TokensBuilt = {<<"0">>}

HasNumber(cell) == cell.k = "num" \/ (cell.k = "str" /\ FloatParses(cell.s))

NumberOf(cell) == IF cell.k = "num" THEN cell.n ELSE FloatOfStr(cell.s)

\* the token the bucketing rule gives |a| for the boundaries b: 'bi-bi+1' for
\* bi <= |a| < bi+1, the overflow label from the last boundary on
ExpectedToken(b, overflow, a) ==
    LET fits == {i \in 1..(Len(b) - 1) : b[i] <= Abs(a) /\ Abs(a) < b[i + 1]}
    IN IF fits # {}
       THEN Some(LET i == CHOOSE i \in fits : TRUE
                 IN Digits(b[i]) \o <<"-">> \o Digits(b[i + 1]))
       ELSE IF Abs(a) >= b[Len(b)] THEN Some(overflow)
       ELSE Missing

BucketRule ==
    LET e == ExpectedToken(FuzzyIntervals(config), FuzzyMaxLabel(config),
                           NumberOf(last.row.amount))
    IN /\ e.has => TokensBuilt = {e.v}
       /\ TokensBuilt = {BucketToken(_fingerprint(config, last.row))}
       /\ TokensBuilt = {BucketToken(TestKey(config, last.row))}

NonZeroAmount ==
    /\ BuiltKeys
    /\ HasNumber(last.row.amount)
    /\ NumberOf(last.row.amount) # 0

\* C6 as stated: for every non-zero amount a and ascending boundaries b0..bn the
\* token is 'bi-bi+1' for bi <= |a| < bi+1 and the overflow label for
\* |a| >= bn, and classify_transaction and _fingerprint compute the same token.
C6_BucketToken_AnyConfig == NonZeroAmount => BucketRule

\* C6, amended: the same, provided the option 忽略金额 is off (its default).
C6_BucketToken == (NonZeroAmount /\ ~FuzzyIgnoreAmount(config)) => BucketRule

C6_Witness ==
    /\ last.op = "classify"
    /\ config = ConfigSmall
    /\ last.row.amount = JNum(-2)
    /\ last.row.party = JStr(P)
    /\ last.row.time = JTime(13)
    /\ last.keys[1] = Key(<<"2", "-", "4">>, P, <<"1", "3">>)

\* C25: the key under which add_user_classification stores a category has the
\* shape '{bucket}_{counterparty}_{description}', counterparty and description
\* trimmed.
C25_TeachKeyShape ==
    last.op = "fingerprint" =>
        last.result = Key(BucketToken(last.result),
                          Strip(StrOrEmpty(last.row.party)),
                          Strip(StrOrEmpty(last.row.desc)))

\* str(int(round(a))) for the whole amounts of the model
RawToken(n) == IF n < 0 THEN <<"-">> \o Digits(0 - n) ELSE Digits(n)

\* C26: with 金额模糊化.启用 = false every fingerprint, the lookup keys and the
\* teach-time key alike, carries the raw integer-rounded amount as its bucket
\* token instead of an interval label.
C26_BucketingDisabled ==
    (/\ BuiltKeys
     /\ HasNumber(last.row.amount)
     /\ ~FuzzyEnable(config))
        => TokensBuilt = {RawToken(NumberOf(last.row.amount))}

\* C27: the key _fingerprint computes for a transaction, under which
\* add_user_classification stores, is one of the keys classify_transaction
\* looks up for that same transaction.
C27_TeachKeyLookedUp ==
    last.op = "classify" =>
        \E i \in 1..Len(last.keys) :
            last.keys[i] = _fingerprint(config, last.row)

-----------------------------------------------------------------------------
(* Properties of the classifier with its files (Spec) *)

\* C2: after add_user_classification(r, c) on a row r whose status holds no
\* failure keyword, classify_transaction(r) on the same classifier returns c
\* with provenance user_rules.
C2_TaughtThenClassified ==
    [][(/\ last.op = "teach"
        /\ last'.op = "classify"
        /\ last'.row = last.row)
            => last'.result = Ret(JStr(last.category), "user_rules")]_vars

\* C9: construction never fails because of the rule configuration: with a
\* missing or malformed config.json it completes, holding a valid rule set.
C9_ConstructionCompletes ==
    /\ last.op = "construct" => (~last.raised /\ phase = "ready")
    /\ last.op = "construct_parser" => ~last.raised

\* C10: after add_user_classification(row, c, persist=True), whatever the
\* rules file held before, if the file system accepts writes the file holds
\* the in-memory user-rule table and a new classifier loads a table equal to it.
C10_FileHoldsTable ==
    (/\ last.op = "teach"
     /\ last.persist
     /\ fs_writable)
        => /\ rules_file.k = "dict"
           /\ DictEq(_load_user_rules(rules_file), user_classifications)

\* add_user_classification(row, c, persist=True) met a persistence failure
PersistFailed ==
    /\ last.op = "teach"
    /\ last.persist
    /\ last.save_failed

\* C11: a failure while persisting the user-rule table (old file unreadable,
\* file unwritable) does not raise out of add_user_classification; the entry
\* just taught is in the in-memory table, and a lookup of that classifier
\* whose first lookup key is the taught key consults that entry.
C11_PersistFailureKeepsMemory ==
    PersistFailed =>
        /\ ~last.raised
        /\ HasKey(user_classifications, last.key)
        /\ Lookup(user_classifications, last.key) = JStr(last.category)
        /\ last.key = TestKey(config, last.row) =>
              LET m == MatchedRules(user_classifications,
                                    PossibleKeys(config, last.row))
              IN m.found /\ m.key = last.key /\ m.rules = JStr(last.category)

\* the write failed, the file does not hold the taught entry, the memory does
C11_Witness ==
    /\ PersistFailed
    /\ ~fs_writable
    /\ rules_file = FileDict(StoredRules)
    /\ last.row = TestSample
    /\ last.key = TestKey(config, last.row)
    /\ ~DictEq(rules_file.d, user_classifications)
    /\ Lookup(user_classifications, last.key) = JStr(last.category)

\* every value of the table is an ordered list of {desc_regex, category}
\* objects
WellFormedTable(d) ==
    \A i \in 1..Len(d) :
        /\ d[i].value.k = "list"
        /\ \A j \in 1..Len(d[i].value.l) :
            /\ d[i].value.l[j].k = "obj"
            /\ d[i].value.l[j].desc_regex.has
            /\ d[i].value.l[j].category.has

\* the store is well formed: the in-memory table is, and the rules file is
\* absent or holds a well-formed table
WellFormedStore ==
    /\ phase = "ready"
    /\ WellFormedTable(user_classifications)
    /\ \/ rules_file.k = "absent"
       \/ rules_file.k = "dict" /\ WellFormedTable(rules_file.d)

\* C19: add_user_classification keeps the store well formed: after a call on
\* a well-formed store every value of the user-rule table, in memory and in
\* the persisted file, is an ordered list of {desc_regex, category} objects,
\* the shape the entry scan of classify_transaction reads.
C19_StoreShape ==
    [][(WellFormedStore /\ last'.op = "teach") => WellFormedStore']_vars

\* C22: save_user_rules writes nothing when the rules file exists and its
\* content equals the in-memory table: teaching the same (transaction,
\* category) twice in a row writes the file at most once, and
\* add_user_classification with persist=False never writes.
C22_NoRedundantWrite ==
    [][last'.op = "teach" =>
        /\ (rules_file.k = "dict"
                /\ DictEq(rules_file.d, user_classifications'))
            => (~last'.wrote /\ rules_file' = rules_file)
        /\ ~last'.persist => (~last'.wrote /\ rules_file' = rules_file)
        /\ (/\ last.op = "teach"
            /\ last'.row = last.row
            /\ last'.category = last.category)
            => ~(last.wrote /\ last'.wrote)]_vars

\* the second of two identical teachings: the file is writable and already
\* holds the table, nothing is written
C22_Witness ==
    /\ last.op = "teach"
    /\ last.persist
    /\ ~last.wrote
    /\ fs_writable
    /\ rules_file.k = "dict"
    /\ DictEq(rules_file.d, user_classifications)
    /\ Lookup(rules_file.d, last.key) = JStr(last.category)

-----------------------------------------------------------------------------
(* Properties of the batch classifier (SpecBatch) *)

\* C4: classify_all_transactions on a table that carries both 分类 and
\* 分类来源 returns it unchanged and runs the resolver on no row, so that
\* applying it to its own result gives that result again, also when the
\* user-rule table changed since the result was computed.
C4_ShortCircuit ==
    [][last'.op = "classify_all"
        => /\ AlreadyClassified(df) => (df' = df /\ last'.resolved = 0)
           /\ classify_all_transactions(Self', df').df = df']_vars

\* a second run over a classified table whose first row the resolver would
\* now classify differently
C4_Witness ==
    /\ last.op = "classify_all"
    /\ AlreadyClassified(last.input)
    /\ TiaoZhengHouZiFenLei \in df.columns
    /\ df.rows # <<>>
    /\ ClassifiedRow(Self, df.rows[1]) # df.rows[1]

\* C24: the classification of a table is recomputed whenever classification
\* runs again: a classify_all_transactions call over a table classified by an
\* earlier call gives every row the category, provenance, adjusted category
\* and sub-category that the resolver returns for it with the user-rule table
\* as it is at that call.
C24_RecomputedOnRerun ==
    [][(/\ last'.op = "classify_all"
        /\ AlreadyClassified(df)
        /\ TiaoZhengHouZiFenLei \in df.columns)
        => \A i \in 1..Len(df.rows) :
              df'.rows[i] = ClassifiedRow(Self', df.rows[i])]_vars

-----------------------------------------------------------------------------
(* Properties of a session (SpecSession) *)

\* the value a table holds under a key, if any
ValueUnder(d, key) == IF HasKey(d, key) THEN Some(Lookup(d, key)) ELSE Missing

\* C23: the in-memory user-rule table and the rules file are changed only by
\* add_user_classification: classify_transaction, classify_all_transactions and
\* get_classification_statistics leave both as they are, and one
\* add_user_classification call changes, in the table, only the entry under
\* the fingerprint of the given transaction, which then holds the category
\* taught last; every other key keeps its value.
C23_StoreFrame ==
    [][/\ last'.op \in {"classify", "classify_all", "statistics", "load"}
            => /\ user_classifications' = user_classifications
               /\ rules_file' = rules_file
       /\ last'.op = "teach"
            => LET k == last'.key
                   keys == {user_classifications[i].key :
                                i \in 1..Len(user_classifications)}
                           \cup {user_classifications'[i].key :
                                i \in 1..Len(user_classifications')}
               IN /\ k = _fingerprint(config, last'.row)
                  /\ ValueUnder(user_classifications', k)
                        = Some(JStr(last'.category))
                  /\ \A key \in keys \ {k} :
                        ValueUnder(user_classifications', key)
                            = ValueUnder(user_classifications, key)]_vars

\* a key taught before another one was added is taught again: two keys, the
\* first one holds the category of the last call
C23_Witness ==
    /\ last.op = "teach"
    /\ Len(user_classifications) = 2
    /\ user_classifications[1].key = last.key
    /\ user_classifications[1].value = JStr(last.category)
    /\ user_classifications[2].value.k = "str"
    /\ rules_file.k = "dict"
    /\ TiaoZhengHouFenLei \in df.columns

-----------------------------------------------------------------------------
(* Properties of the aggregator (SpecStats) *)

Aggregated == last.op = "statistics"

\* the category of a row of the aggregated table: its adjusted category when
\* the table carries that column, else its category
CategoryOf(table, r) ==
    IF TiaoZhengHouFenLei \in table.columns
    THEN r.cells.tiao_zheng_hou_fen_lei
    ELSE r.cells.fen_lei

HasPrefix(v, prefix) ==
    /\ v.k = "str"
    /\ Len(v.s) >= Len(prefix)
    /\ \A i \in 1..Len(prefix) : v.s[i] = prefix[i]

\* the sum of the amounts of the rows whose index is in idx
RECURSIVE TotalOver(_, _)
TotalOver(table, idx) ==
    IF idx = {} THEN 0
    ELSE LET i == Min(idx)
         IN table.rows[i].tx.amount.n + TotalOver(table, idx \ {i})

\* the rows whose category starts with 收入, starts with 支出, is 非收支
IncomeRows(table) ==
    {i \in 1..Len(table.rows) :
        HasPrefix(CategoryOf(table, table.rows[i]), Income)}

ExpenseRows(table) ==
    {i \in 1..Len(table.rows) :
        HasPrefix(CategoryOf(table, table.rows[i]), Expense)}

NonOperationalRows(table) ==
    {i \in 1..Len(table.rows) :
        CategoryOf(table, table.rows[i]) = JStr(NonOperational)}

\* the sum of the values of a map
RECURSIVE MapSum(_)
MapSum(f) ==
    IF DOMAIN f = {} THEN 0
    ELSE LET c == CHOOSE c \in DOMAIN f : TRUE
         IN f[c] + MapSum([d \in DOMAIN f \ {c} |-> f[d]])

\* a classified table with numeric amounts: it carries a category column whose
\* cells are text or missing, and every amount is a number
ClassifiedNumeric(table) ==
    /\ JinE \notin Dropped(table)
    /\ table.columns \cap {FenLei, TiaoZhengHouFenLei} # {}
    /\ \A i \in 1..Len(table.rows) :
        /\ table.rows[i].tx.amount.k = "num"
        /\ CategoryOf(table, table.rows[i]).k \in {"str", "null"}

Partitioned(table) ==
    IncomeRows(table) \cup ExpenseRows(table) \cup NonOperationalRows(table)
        = 1..Len(table.rows)

\* C12: for a classified table with numeric amounts the statistics hold
\* total income = the sum of the amounts of the rows whose category starts
\* with 收入, total expense = the sum for categories starting with 支出,
\* non-operational total = the sum for the category 非收支, net income = total
\* income - total expense; when every row falls in one of the three groups,
\* the per-category amounts sum up to the three totals together.
C12_Totals ==
    (Aggregated /\ ClassifiedNumeric(last.input)) =>
        LET t == last.input
            income == TotalOver(t, IncomeRows(t))
            expense == TotalOver(t, ExpenseRows(t))
            nonop == TotalOver(t, NonOperationalRows(t))
        IN /\ last.stats.zong_shou_ru = income
           /\ last.stats.zong_zhi_chu = expense
           /\ last.stats.fei_shou_zhi_zong_e = nonop
           /\ last.stats.jing_shou_ru = income - expense
           /\ Partitioned(t) =>
                MapSum(last.stats.fen_lei_tong_ji.jin_e)
                    = income + expense + nonop

\* an income row the user re-categorised from expense, and an expense row
C12_Witness ==
    /\ Aggregated
    /\ ClassifiedNumeric(last.input)
    /\ Partitioned(last.input)
    /\ Len(last.input.rows) = 2
    /\ last.input.rows[1].cells.fen_lei
            # last.input.rows[1].cells.tiao_zheng_hou_fen_lei
    /\ last.stats.zong_shou_ru = 3
    /\ last.stats.zong_zhi_chu = -1
    /\ last.stats.jing_shou_ru = 4
    /\ MapSum(last.stats.fen_lei_tong_ji.jin_e) = 2

\* the fields of the statistics of a table that aggregates normally
StatsFields ==
    {"zong_shou_ru", "zong_zhi_chu", "jing_shou_ru", "fei_shou_zhi_zong_e",
     "fen_lei_tong_ji", "ping_tai_tong_ji"}

\* aggregation fails internally: the table has no amount column, or its
\* category column holds numbers and no text
AggregationFails(table) ==
    \/ JinE \in Dropped(table)
    \/ /\ \E i \in 1..Len(table.rows) :
            CategoryOf(table, table.rows[i]).k = "num"
       /\ \A i \in 1..Len(table.rows) :
            CategoryOf(table, table.rows[i]).k # "str"

\* C13: when aggregation fails internally, the statistics returned carry
\* every field of the normal result: income, expense, net and non-operational
\* totals 0, empty per-category count and amount maps, empty per-platform sum
\* and count maps.
C13_FallbackComplete ==
    (Aggregated /\ AggregationFails(last.input)) =>
        /\ DOMAIN last.stats = StatsFields
        /\ last.stats.zong_shou_ru = 0
        /\ last.stats.zong_zhi_chu = 0
        /\ last.stats.jing_shou_ru = 0
        /\ last.stats.fei_shou_zhi_zong_e = 0
        /\ last.stats.fen_lei_tong_ji.shu_liang = EmptyMap
        /\ last.stats.fen_lei_tong_ji.jin_e = EmptyMap
        /\ last.stats.ping_tai_tong_ji.sum = EmptyMap
        /\ last.stats.ping_tai_tong_ji.count = EmptyMap

\* C14: for an empty transaction table (zero rows, with or without category
\* and platform columns) the statistics are all totals 0, an empty
\* per-category count map and amount map, and empty per-platform sum and
\* count maps.
C14_EmptyTable ==
    (/\ Aggregated
     /\ last.input.rows = <<>>
     /\ JinE \notin Dropped(last.input)) =>
        /\ DOMAIN last.stats = StatsFields
        /\ last.stats.zong_shou_ru = 0
        /\ last.stats.zong_zhi_chu = 0
        /\ last.stats.jing_shou_ru = 0
        /\ last.stats.fei_shou_zhi_zong_e = 0
        /\ last.stats.fen_lei_tong_ji.shu_liang = EmptyMap
        /\ last.stats.fen_lei_tong_ji.jin_e = EmptyMap
        /\ last.stats.ping_tai_tong_ji.sum = EmptyMap
        /\ last.stats.ping_tai_tong_ji.count = EmptyMap

\* an empty table with category and platform columns
C14_Witness ==
    /\ Aggregated
    /\ last.input.rows = <<>>
    /\ JinE \notin Dropped(last.input)
    /\ {FenLei, TiaoZhengHouFenLei, PingTai} \subseteq last.input.columns
    /\ last.stats.fei_shou_zhi_zong_e = 0

\* C15: aggregation has no side effect on the table it is given: after
\* get_classification_statistics(df) the caller's table has the columns and
\* cell values it had before, also when it has no category column and the
\* placeholder 未分类 is synthesized.  (classify_all_transactions assigns only
\* to its copy, line 242.)
C15_InputUnchanged == Aggregated => df = last.input

\* the rows of a table whose status carries a failure keyword
FailedRows(table) ==
    {i \in 1..Len(table.rows) : StatusFailed(table.rows[i].tx)}

\* the table without its failed rows
WithoutFailed(table) ==
    [table EXCEPT !.rows = SelectSeq(@, LAMBDA r : ~StatusFailed(r.tx))]

CountUnder(stats, category) ==
    IF category \in DOMAIN stats.fen_lei_tong_ji.shu_liang
    THEN stats.fen_lei_tong_ji.shu_liang[category]
    ELSE 0

\* C29: when a table that carries the amount column is classified by
\* classify_all_transactions and then aggregated, total income, total expense
\* and the non-operational total are those of the table without its rows of
\* failed status, whatever the direction and amount of those rows, and each of
\* those rows is counted in the per-category map under 未达到分类要求.
C29_FailedRowsExcluded ==
    [][(/\ last.op = "classify_all"
        /\ last.resolved > 0
        /\ last'.op = "statistics"
        /\ JinE \notin Dropped(df))
        => LET rest == get_classification_statistics(WithoutFailed(df)).stats
           IN /\ last'.stats.zong_shou_ru = rest.zong_shou_ru
              /\ last'.stats.zong_zhi_chu = rest.zong_zhi_chu
              /\ last'.stats.fei_shou_zhi_zong_e = rest.fei_shou_zhi_zong_e
              /\ CountUnder(last'.stats, JStr(UnclassifiedByStatus))
                    = Cardinality(FailedRows(df))]_vars

\* a failed income of 3 next to an expense of -1, classified by the resolver
\* and aggregated: the income total is 0 and one row is counted as failed
C29_Witness ==
    /\ Aggregated
    /\ last.input.columns = ClassifiedColumns
    /\ Dropped(last.input) = {}
    /\ Len(last.input.rows) = 2
    /\ last.input.rows[1].tx = StatTx("failed_income", JNum(3))
    /\ last.input.rows[1].cells.fen_lei_lai_yuan = JStr(<<"status_filter">>)
    /\ last.input.rows[2].tx = StatTx("expense", JNum(-1))
    /\ last.stats.zong_shou_ru = 0
    /\ last.stats.zong_zhi_chu = -1
    /\ CountUnder(last.stats, JStr(UnclassifiedByStatus)) = 1

====
